---------------------------- MODULE Spec2Model ----------------------------
(***************************************************************************)
(* Model of Mapping1.py: the exploration loop of a PiCrawler robot.        *)
(* main() repeats: read the sonar, compute a speed, avoid an obstacle or   *)
(* wander, every PHOTO_INTERVAL seconds take a photo and compare it with   *)
(* the remembered ones, append (angle, distance) to the trace log `data`.  *)
(* A KeyboardInterrupt anywhere in the loop body runs the handler, which   *)
(* writes room_map.csv and room_map.png and leaves the loop.               *)
(*                                                                         *)
(* Sonar readings and times are integers (centimetres, seconds); a photo   *)
(* is the list of ORB descriptors it yields, a descriptor the set of its   *)
(* one-bits.                                                               *)
(***************************************************************************)
EXTENDS Integers, Sequences, FiniteSets, TLC

\* ------------------------------------------------------------ constants
ALERT_DISTANCE == 15
BASE_SPEED == 100
TURN_ANGLE == 90
PHOTO_INTERVAL == 10
\* max(50, ...) in main
MIN_SPEED == 50
\* m.distance < 50 in compare_photos
GOOD_MATCH_DISTANCE == 50
\* num_good_matches > 10 in compare_photos
MIN_GOOD_MATCHES == 10
\* random.randint(0, 360): both ends included
ANGLE_LOW == 0
ANGLE_HIGH == 360

\* ------------------------------------------------------------ bounds
\* number of loop iterations a run may start
MaxCycles == 3
\* the same, for the runs on which termination is checked
MaxFairCycles == 2

\* ------------------------------------------------------------ inputs
None == "None"
\* what sonar.read() may return: nothing, a negative number, a distance
RawNumbers == {-1, 0, 15}
RawReadings == {[none |-> TRUE, val |-> 0]} \cup {[none |-> FALSE, val |-> v] : v \in RawNumbers}
\* the values random.randint(0, 360) is sampled at
AngleSamples == {a \in {0, 360} : ANGLE_LOW <= a /\ a <= ANGLE_HIGH}
\* seconds by which time.time() is seen to advance over one time.sleep(0.2)
\* (with the movement before it)
Ticks == {5, 11}
\* time.time() - last_photo_time is kept up to this value: the only use of it
\* is the comparison with PHOTO_INTERVAL
ElapsedCap == PHOTO_INTERVAL + 1

\* ------------------------------------------------------------ distances
\* float('inf') and the finite readings
Inf == [inf |-> TRUE, val |-> 0]
Finite(v) == [inf |-> FALSE, val |-> v]
\* Python's d < n for a float d that may be inf
Less(d, n) == ~d.inf /\ d.val < n

\* measure_distance(): the reading, or inf when there is none or it is negative
measure_distance_NoFilter(r) == IF r.none THEN Inf ELSE Finite(r.val)
measure_distance(r) == IF r.none \/ r.val < 0 THEN Inf ELSE Finite(r.val)

\* int(distance / ALERT_DISTANCE * BASE_SPEED) for a finite distance >= 0:
\* int() truncates
ScaledSpeed(d) == (d.val * BASE_SPEED) \div ALERT_DISTANCE
\* speed = max(50, int(...)) when the distance is finite; int(inf) raises
\* OverflowError, see ComputeSpeed
DecidedSpeed(d) == IF ScaledSpeed(d) > MIN_SPEED THEN ScaledSpeed(d) ELSE MIN_SPEED


\* ------------------------------------------------------------ photos
\* The photos camera.read() may deliver, by what ORB finds in them: a list of
\* descriptors, each the set of its one-bits (the Hamming distance of two
\* descriptors is the size of their symmetric difference).
\*   sparse  10 keypoints
\*   blank   no keypoint, detectAndCompute returns des = None
\*   roomA   11 keypoints
\*   roomB   another place: each descriptor 50 bits away from roomA's
\*   roomAB  a view of both places: 22 keypoints, eleven one bit away from
\*           roomA's and eleven one bit away from roomB's
Photos == {"sparse", "blank", "roomA", "roomB", "roomAB"}
Descriptors(p) ==
  CASE p = "sparse" -> [k \in 1..10 |-> {k}]
    [] p = "blank" -> << >>
    [] p = "roomA" -> [k \in 1..11 |-> {k}]
    [] p = "roomB" -> [k \in 1..11 |-> {k} \cup (200..249)]
    [] p = "roomAB" -> [k \in 1..22 |-> IF k <= 11 THEN {k, 100 + k}
                                         ELSE {k - 11, 100 + k} \cup (200..249)]

\* cv2.NORM_HAMMING
Hamming(a, b) == Cardinality((a \ b) \cup (b \ a))

\* BFMatcher: the index of the descriptor of `train` nearest to q, the first
\* one among equals
Nearest(q, train) ==
  CHOOSE j \in 1..Len(train) :
    \A k \in 1..Len(train) :
      \/ Hamming(q, train[j]) < Hamming(q, train[k])
      \/ Hamming(q, train[j]) = Hamming(q, train[k]) /\ j <= k

\* bf.match(des1, des2) with crossCheck=True: the query indices i whose nearest
\* train descriptor has i as its nearest query descriptor
Matches(des1, des2) ==
  {i \in 1..Len(des1) : Nearest(des2[Nearest(des1[i], des2)], des1) = i}

\* len([m for m in matches if m.distance < 50])
GoodMatches(des1, des2) ==
  {i \in Matches(des1, des2) :
     Hamming(des1[i], des2[Nearest(des1[i], des2)]) < GOOD_MATCH_DISTANCE}

\* compare_photos(photo1, photo2): "true", "false", or "error" when bf.match
\* raises. photo1 without descriptors (des1 = None, an empty query) gives no
\* match at all; photo2 without descriptors under a non-empty query makes
\* OpenCV's batchDistance assertion fail (cv2.error).
compare_photos(photo1, photo2) ==
  LET des1 == Descriptors(photo1)
      des2 == Descriptors(photo2)
  IN  IF Len(des1) = 0 THEN "false"
      ELSE IF Len(des2) = 0 THEN "error"
      ELSE IF Cardinality(GoodMatches(des1, des2)) > MIN_GOOD_MATCHES
           THEN "true" ELSE "false"

\* the comparisons, computed once
CompareTable == [p \in Photos, q \in Photos |-> compare_photos(p, q)]

\* check_orientation's loop over photo_history from index i on: "match" at the
\* first similar photo, "error" if a comparison raises before one is found,
\* "nomatch" at the end of the list
RECURSIVE Scan(_, _, _)
Scan(photo, history, i) ==
  IF i > Len(history) THEN "nomatch"
  ELSE LET r == CompareTable[photo, history[i]]
       IN  IF r = "error" THEN "error"
           ELSE IF r = "true" THEN "match"
           ELSE Scan(photo, history, i + 1)

\* ------------------------------------------------------------ state
VARIABLES
  pc,              \* the statement of main() about to run, "done" after main
  exc,             \* the exception that ended main(), "none" otherwise
  interrupted,     \* a KeyboardInterrupt was raised in the loop body
  raw,             \* what sonar.read() returned last
  distance,        \* main's local `distance`
  speed,           \* main's local `speed`
  since_photo,     \* time.time() - last_photo_time, up to ElapsedCap
  current_photo,   \* main's local `current_photo`
  recognized,      \* what check_orientation returned for current_photo
  last_check,      \* photo and result of the visual check before this one
  data,            \* the trace log: (angle, distance) pairs
  photo_history,   \* the remembered photos
  issued,          \* the crawler.do_action calls of the iteration under way
  alert,           \* the sound call of the iteration under way: none, played, failed
  cycles_started,  \* iterations begun (line 123 reached and run)
  cycles_completed,\* iterations that ran to the end of the loop body
  flush_attempts,  \* calls of save_data_to_csv
  captures,        \* photos camera.read() has delivered
  failed_streak,   \* the scheduled checks in a row whose capture failed: how
                   \* many, and the length of photo_history at the first
  csv_file,        \* rows of room_map.csv, << >> while it was not written
  png_file         \* room_map.png was written

vars == <<pc, exc, interrupted, raw, distance, speed, since_photo, current_photo,
          recognized, last_check, data, photo_history, issued, alert,
          cycles_started, cycles_completed, flush_attempts, captures, failed_streak,
          csv_file, png_file>>

\* the statements inside `try:` (lines 123-151)
TryBody == {"measure", "speed", "sound", "avoid", "wander", "sleep", "capture", "orient", "corr_avoid", "corr_sleep", "remember",
            "reset_timer", "record"}
\* the statements of the KeyboardInterrupt handler (lines 154-158)
Handler == {"save_csv", "save_plot"}

\* the states of the loop
Running == pc \in TryBody
ShuttingDown == pc \in Handler
Terminated == pc = "done"

NoCheck == [photo |-> None, recognized |-> FALSE]
NoStreak == [count |-> 0, memory |-> 0]

\* a crawler.do_action(action, step, speed) call and the function that made it
Command(action, step, spd, by) == [action |-> action, step |-> step, speed |-> spd, by |-> by]

Init ==
  /\ pc = "measure"
  /\ exc = "none"
  /\ interrupted = FALSE
  /\ raw = [none |-> TRUE, val |-> 0]
  /\ distance = Inf
  /\ speed = 0
  /\ since_photo = 0
  /\ current_photo = None
  /\ recognized = FALSE
  /\ last_check = NoCheck
  /\ data = << >>
  /\ photo_history = << >>
  /\ issued = << >>
  /\ alert = "none"
  /\ cycles_started = 0
  /\ cycles_completed = 0
  /\ flush_attempts = 0
  /\ captures = 0
  /\ failed_streak = NoStreak
  /\ csv_file = << >>
  /\ png_file = FALSE

\* an exception no handler of main() catches: main() ends with it
Raise(e) == pc' = "done" /\ exc' = e

\* time.sleep(0.2): the clock moves
Advance(elapsed, dt) == IF elapsed + dt > ElapsedCap THEN ElapsedCap ELSE elapsed + dt

\* ------------------------------------------------------------ the loop body
\* line 123: distance = measure_distance(); a new iteration begins, if fewer
\* than `limit` were begun
StartCycle(limit) ==
  /\ pc = "measure"
  /\ cycles_started < limit
  /\ \E r \in RawReadings :
       /\ raw' = r
       /\ distance' = measure_distance(r)
  /\ cycles_started' = cycles_started + 1
  /\ pc' = "speed"
  /\ UNCHANGED <<failed_streak, captures, exc, interrupted, speed, since_photo, current_photo, recognized,
                 last_check, data, photo_history, issued, alert, cycles_completed,
                 flush_attempts, csv_file, png_file>>

Measure == StartCycle(MaxCycles)
MeasureFair == StartCycle(MaxFairCycles)

\* line 129: if distance < ALERT_DISTANCE
IsObstacle(d) == Less(d, ALERT_DISTANCE)

\* line 127: speed = max(50, int(distance / ALERT_DISTANCE * BASE_SPEED));
\* int() of an infinite float raises OverflowError, which nothing catches.
\* Then the test of line 129.
ComputeSpeed ==
  /\ pc = "speed"
  /\ \/ /\ distance.inf
        /\ Raise("OverflowError")
        /\ UNCHANGED speed
     \/ /\ ~distance.inf
        /\ speed' = DecidedSpeed(distance)
        /\ pc' = IF IsObstacle(distance) THEN "sound" ELSE "wander"
        /\ UNCHANGED exc
  /\ UNCHANGED <<failed_streak, captures, interrupted, raw, distance, since_photo, current_photo, recognized,
                 last_check, data, photo_history, issued, alert, cycles_started,
                 cycles_completed, flush_attempts, csv_file, png_file>>

\* lines 133-135: except Exception prints the error, avoid_obstacle() follows
\* whether the sound played or failed
AfterSound_Unhandled(outcome) == IF outcome = "failed" THEN "done" ELSE "avoid"
AfterSound(outcome) == "avoid"

\* lines 131-134: music.sound_effect_threading(...), an Exception of it is
\* logged and dropped
PlaySound ==
  /\ pc = "sound"
  /\ \/ alert' = "played"
     \/ alert' = "failed"
  /\ pc' = AfterSound(alert')
  /\ UNCHANGED <<failed_streak, captures, exc, interrupted, raw, distance, speed, since_photo, current_photo,
                 recognized, last_check, data, photo_history, issued, cycles_started,
                 cycles_completed, flush_attempts, csv_file, png_file>>

\* the speed avoid_obstacle and wander hand to crawler.do_action: BASE_SPEED,
\* whatever main computed
DriverSpeed(decided) == BASE_SPEED

\* avoid_obstacle(), lines 104-105: the turn to the left
EvasiveTurn(decided) == Command("turn left angle", TURN_ANGLE, DriverSpeed(decided), "avoid_obstacle")

\* wander(), lines 88-98: one of three moves
WanderCommand(action, decided) ==
  CASE action = "forward" -> Command("forward", 1, DriverSpeed(decided), "wander")
    [] action = "turn left" -> Command("turn left angle", TURN_ANGLE, DriverSpeed(decided), "wander")
    [] action = "turn right" -> Command("turn right angle", TURN_ANGLE, DriverSpeed(decided), "wander")

\* line 135: avoid_obstacle() up to its do_action; the driver may raise
AvoidObstacle ==
  /\ pc = "avoid"
  /\ \/ /\ issued' = Append(issued, EvasiveTurn(speed))
        /\ pc' = "sleep"
        /\ UNCHANGED exc
     \/ /\ Raise("ActuationError")
        /\ UNCHANGED issued
  /\ UNCHANGED <<failed_streak, captures, interrupted, raw, distance, speed, since_photo, current_photo,
                 recognized, last_check, data, photo_history, alert, cycles_started,
                 cycles_completed, flush_attempts, csv_file, png_file>>

\* line 138: wander() up to its do_action; the driver may raise
Wander ==
  /\ pc = "wander"
  /\ \/ /\ \E action \in {"forward", "turn left", "turn right"} :
             issued' = Append(issued, WanderCommand(action, speed))
        /\ pc' = "sleep"
        /\ UNCHANGED exc
     \/ /\ Raise("ActuationError")
        /\ UNCHANGED issued
  /\ UNCHANGED <<failed_streak, captures, interrupted, raw, distance, speed, since_photo, current_photo,
                 recognized, last_check, data, photo_history, alert, cycles_started,
                 cycles_completed, flush_attempts, csv_file, png_file>>

\* PhotoDue: line 141, time.time() - last_photo_time > PHOTO_INTERVAL
PhotoDue_AtInterval(elapsed) == elapsed >= PHOTO_INTERVAL
PhotoDue(elapsed) == elapsed > PHOTO_INTERVAL

\* lines 141-151: after the primary command the photo check runs if it is due,
\* and the append of line 151 comes after it
AfterPrimary_RecordFirst(elapsed) == "record"
AfterPrimary(elapsed) == IF PhotoDue(elapsed) THEN "capture" ELSE "record"

\* lines 100 and 106: time.sleep(0.2) ending wander() or avoid_obstacle(),
\* then the test of line 141
Sleep ==
  /\ pc = "sleep"
  /\ \E dt \in Ticks :
       /\ since_photo' = Advance(since_photo, dt)
       /\ pc' = AfterPrimary(since_photo')
  /\ UNCHANGED <<failed_streak, captures, exc, interrupted, raw, distance, speed, current_photo, recognized,
                 last_check, data, photo_history, issued, alert, cycles_started,
                 cycles_completed, flush_attempts, csv_file, png_file>>

\* line 143: if current_photo is not None; a failed capture skips the check
AfterCapture_StoreAnyway(photo) == IF photo = None THEN "remember" ELSE "orient"
AfterCapture(photo) == IF photo = None THEN "reset_timer" ELSE "orient"

\* lines 142-143: current_photo = capture_photo(); camera.read() may return None
Capture ==
  /\ pc = "capture"
  /\ \E p \in Photos \cup {None} :
       /\ current_photo' = p
       /\ captures' = IF p = None THEN captures ELSE captures + 1
       /\ failed_streak' =
            IF p # None THEN NoStreak
            ELSE IF failed_streak.count = 0
                 THEN [count |-> 1, memory |-> Len(photo_history)]
                 ELSE [failed_streak EXCEPT !.count = @ + 1]
       /\ pc' = AfterCapture(p)
  /\ recognized' = FALSE
  /\ UNCHANGED <<exc, interrupted, raw, distance, speed, since_photo, last_check,
                 data, photo_history, issued, alert, cycles_started, cycles_completed,
                 flush_attempts, csv_file, png_file>>

\* check_orientation(current_photo), lines 110-111: the scan of photo_history
check_orientation_scan_Blind(photo, history) == "nomatch"
check_orientation_scan(photo, history) == Scan(photo, history, 1)

\* line 144, check_orientation up to the outcome of its scan: a comparison
\* raised, a remembered photo is similar, or none is
CheckOrientation ==
  /\ pc = "orient"
  /\ LET r == check_orientation_scan(current_photo, photo_history)
     IN  \/ /\ r = "error"
            /\ Raise("cv2.error")
         \/ /\ r = "match"
            /\ pc' = "corr_avoid"
            /\ UNCHANGED exc
         \/ /\ r = "nomatch"
            /\ pc' = "remember"
            /\ UNCHANGED exc
  /\ UNCHANGED <<failed_streak, captures, interrupted, raw, distance, speed, since_photo, current_photo,
                 recognized, last_check, data, photo_history, issued, alert,
                 cycles_started, cycles_completed, flush_attempts, csv_file, png_file>>

\* line 114: avoid_obstacle() inside check_orientation, up to its do_action
CorrectiveTurn ==
  /\ pc = "corr_avoid"
  /\ \/ /\ issued' = Append(issued, EvasiveTurn(speed))
        /\ pc' = "corr_sleep"
        /\ UNCHANGED exc
     \/ /\ Raise("ActuationError")
        /\ UNCHANGED issued
  /\ UNCHANGED <<failed_streak, captures, interrupted, raw, distance, speed, since_photo, current_photo,
                 recognized, last_check, data, photo_history, alert, cycles_started,
                 cycles_completed, flush_attempts, csv_file, png_file>>

\* lines 112-115: the remembered photos check_orientation reacts to with an
\* avoid_obstacle(); return True leaves the loop at the first similar one
ReactionsToMatches_EveryMatch(photo, history) ==
  Cardinality({i \in 1..Len(history) : CompareTable[photo, history[i]] = "true"})
ReactionsToMatches(photo, history) ==
  IF \E i \in 1..Len(history) : CompareTable[photo, history[i]] = "true" THEN 1 ELSE 0

\* lines 106 and 115: the sleep of that avoid_obstacle(), then return True
CorrectiveSleep ==
  /\ pc = "corr_sleep"
  /\ \E dt \in Ticks : since_photo' = Advance(since_photo, dt)
  /\ recognized' = TRUE
  /\ pc' = IF Len(issued) - 1 < ReactionsToMatches(current_photo, photo_history)
            THEN "corr_avoid"
            ELSE "reset_timer"
  /\ UNCHANGED <<failed_streak, captures, exc, interrupted, raw, distance, speed, current_photo, last_check,
                 data, photo_history, issued, alert, cycles_started, cycles_completed,
                 flush_attempts, csv_file, png_file>>

\* photo_history.append(current_photo)
RememberPhoto(history, photo) == Append(history, photo)

\* lines 116 and 144-145: check_orientation returned False, the photo is kept
Remember ==
  /\ pc = "remember"
  /\ photo_history' = RememberPhoto(photo_history, current_photo)
  /\ recognized' = FALSE
  /\ pc' = "reset_timer"
  /\ UNCHANGED <<failed_streak, captures, exc, interrupted, raw, distance, speed, since_photo, current_photo,
                 last_check, data, issued, alert, cycles_started, cycles_completed,
                 flush_attempts, csv_file, png_file>>

\* line 146: last_photo_time = time.time()
ResetTimer ==
  /\ pc = "reset_timer"
  /\ since_photo' = 0
  /\ last_check' = IF current_photo = None THEN NoCheck
                   ELSE [photo |-> current_photo, recognized |-> recognized]
  /\ pc' = "record"
  /\ UNCHANGED <<failed_streak, captures, exc, interrupted, raw, distance, speed, current_photo, recognized,
                 data, photo_history, issued, alert, cycles_started, cycles_completed,
                 flush_attempts, csv_file, png_file>>

\* data.append((angle, distance))
RecordSample_Skip(log, angle, d) == log
RecordSample(log, angle, d) == Append(log, <<angle, d>>)

\* lines 150-151: angle = random.randint(0, 360); data.append((angle, distance)).
\* The last statement of the body: the iteration is complete.
Record ==
  /\ pc = "record"
  /\ \E angle \in AngleSamples : data' = RecordSample(data, angle, distance)
  /\ cycles_completed' = cycles_completed + 1
  /\ issued' = << >>
  /\ alert' = "none"
  /\ pc' = "measure"
  /\ UNCHANGED <<failed_streak, captures, exc, interrupted, raw, distance, speed, since_photo, current_photo,
                 recognized, last_check, photo_history, cycles_started, flush_attempts,
                 csv_file, png_file>>

\* ------------------------------------------------------------ interrupt and flush
\* A KeyboardInterrupt is raised while a statement of the try body is about to
\* run or is waiting (in a driver call, in a sleep): `except KeyboardInterrupt`
\* of line 153 takes over and the rest of the iteration is not run.
InterruptTarget_NoFlush(at) == "done"
InterruptTarget_Deferred(at) == at
InterruptTarget(at) == "save_csv"

Interrupt ==
  /\ pc \in TryBody
  /\ ~interrupted
  /\ interrupted' = TRUE
  /\ pc' = InterruptTarget(pc)
  /\ UNCHANGED <<failed_streak, captures, exc, raw, distance, speed, since_photo, current_photo, recognized,
                 last_check, data, photo_history, issued, alert, cycles_started,
                 cycles_completed, flush_attempts, csv_file, png_file>>

\* str() of a natural number, as its list of digits
Digit(n) == CASE n = 0 -> "0" [] n = 1 -> "1" [] n = 2 -> "2" [] n = 3 -> "3" [] n = 4 -> "4"
              [] n = 5 -> "5" [] n = 6 -> "6" [] n = 7 -> "7" [] n = 8 -> "8" [] n = 9 -> "9"
RECURSIVE Str(_)
Str(n) == IF n < 10 THEN <<Digit(n)>> ELSE Append(Str(n \div 10), Digit(n % 10))

\* what csv.writer writes for a distance: str() of it
StrDistance(d) == IF d.inf THEN <<"i", "n", "f">> ELSE Str(d.val)

\* save_data_to_csv, lines 43-44: the header row, then one row per sample
CsvRows_NewestFirst(log) ==
  [i \in 1..(Len(log) + 1) |->
     IF i = 1 THEN <<"Angle", "Distance">>
     ELSE <<Str(log[Len(log) + 2 - i][1]), StrDistance(log[Len(log) + 2 - i][2])>>]
RECURSIVE CsvRows(_)
CsvRows(log) ==
  IF log = << >> THEN << <<"Angle", "Distance">> >>
  ELSE LET n == Len(log)
       IN  Append(CsvRows(SubSeq(log, 1, n - 1)), <<Str(log[n][1]), StrDistance(log[n][2])>>)

\* lines 153-158: the handler has no try of its own, an OSError of the write
\* leaves main()
CsvWriteFails_Swallowed == pc' = "save_plot" /\ UNCHANGED exc
CsvWriteFails == Raise("OSError")

\* line 155: save_data_to_csv(data); open() or a write may raise OSError, which
\* leaves main()
SaveCsv ==
  /\ pc = "save_csv"
  /\ flush_attempts' = flush_attempts + 1
  /\ \/ /\ csv_file' = CsvRows(data)
        /\ pc' = "save_plot"
        /\ UNCHANGED exc
     \/ /\ CsvWriteFails
        /\ UNCHANGED csv_file
  /\ UNCHANGED <<failed_streak, captures, interrupted, raw, distance, speed, since_photo, current_photo,
                 recognized, last_check, data, photo_history, issued, alert,
                 cycles_started, cycles_completed, png_file>>

\* lines 156-158: save_plot(data), then break; savefig may raise as well
SavePlot ==
  /\ pc = "save_plot"
  /\ \/ /\ png_file' = TRUE
        /\ pc' = "done"
        /\ UNCHANGED exc
     \/ /\ Raise("OSError")
        /\ UNCHANGED png_file
  /\ UNCHANGED <<failed_streak, captures, interrupted, raw, distance, speed, since_photo, current_photo,
                 recognized, last_check, data, photo_history, issued, alert,
                 cycles_started, cycles_completed, flush_attempts, csv_file>>

\* ------------------------------------------------------------ specification
\* the statements of main() after line 123
Step ==
  \/ ComputeSpeed
  \/ PlaySound
  \/ AvoidObstacle
  \/ Wander
  \/ Sleep
  \/ Capture
  \/ CheckOrientation
  \/ CorrectiveTurn
  \/ CorrectiveSleep
  \/ Remember
  \/ ResetTimer
  \/ Record
  \/ Interrupt
  \/ SaveCsv
  \/ SavePlot

Next ==
  \/ Measure
  \/ Step

Spec == Init /\ [][Next]_vars

\* The runs of up to MaxFairCycles iterations. The handler is straight-line
\* code: once it is entered, each of its statements runs.
FairNext ==
  \/ MeasureFair
  \/ Step

FairSpec == Init /\ [][FairNext]_vars /\ WF_vars(SaveCsv) /\ WF_vars(SavePlot)

\* ------------------------------------------------------------ properties
\* the statements after the primary command of an iteration
AfterCommand == {"sleep", "capture", "orient", "corr_avoid", "corr_sleep", "remember",
                 "reset_timer", "record"}
\* the statements at which a locomotion command is handed to the driver
Commanding == {"avoid", "wander", "corr_avoid"}

\* C1: an interrupt is observed only at a cycle boundary, so when the flush
\* starts the trace log holds one sample for every iteration that was started.
C1_FlushSeesEveryStartedCycle ==
  pc = "save_csv" => Len(data) = cycles_started

\* C2: without an interrupt the flush is never attempted; after an interrupt
\* nothing but the handler runs, save_data_to_csv is called exactly once, and
\* main() ends, whether the writes succeed or raise.
C2_FlushExactlyOnce ==
  /\ [](~interrupted => flush_attempts = 0 /\ ~ShuttingDown)
  /\ [](interrupted => /\ ShuttingDown \/ Terminated
                       /\ flush_attempts = (IF pc = "save_csv" THEN 0 ELSE 1))
  /\ (interrupted ~> Terminated)
\* a run whose flush failed: one attempt, main() over
C2_Witness ==
  interrupted /\ Terminated /\ flush_attempts = 1 /\ exc = "OSError" /\ Len(data) > 0

\* C3: an iteration whose reading is absent or negative (distance = inf) does
\* not fail: the loop is still running afterwards unless it was interrupted.
C3_InvalidReadingTolerated ==
  (cycles_started > 0 /\ distance.inf) => (Running \/ interrupted)

\* C4: a statement that hands a command to the locomotion driver is left for
\* the next statement of the loop or by an interrupt, never by ending the loop.
C4_ActuationFaultKeepsRunning ==
  [][(pc \in Commanding /\ ~Running') => interrupted']_vars

\* C5: the trace log is as long as the number of completed iterations, in
\* every state and so at every cycle boundary and when the flush starts; it
\* changes only by the append of one sample that ends an iteration.
C5_LogLengthIsCompletedCycles ==
  /\ [](Len(data) = cycles_completed)
  /\ [][data' # data =>
          /\ pc = "record" /\ pc' = "measure"
          /\ \E angle \in AngleSamples : data' = Append(data, <<angle, distance>>)]_vars
\* the flush starts in the middle of the second iteration: one sample
C5_Witness ==
  pc = "save_csv" /\ cycles_started = 2 /\ cycles_completed = 1 /\ Len(data) = 1

\* The part of C6 on finite distances: whenever an iteration has issued its
\* primary command, that command is the evasive turn exactly when
\* distance < ALERT_DISTANCE and a move of wander otherwise.
PrimaryCommandByFiniteDistance ==
  pc \in AfterCommand =>
    /\ Len(issued) >= 1
    /\ issued[1].by = "avoid_obstacle" <=> Less(distance, ALERT_DISTANCE)
    /\ issued[1].by = "avoid_obstacle" =>
         issued[1].action = "turn left angle" /\ issued[1].step = TURN_ANGLE
    /\ issued[1].by = "wander" =>
         issued[1].action \in {"forward", "turn left angle", "turn right angle"}

\* C6: once an iteration is past its decision, its first command is the
\* evasive turn exactly when distance < ALERT_DISTANCE, one of wander's three
\* moves otherwise; an iteration with distance = inf issues such a move too.
C6_PrimaryCommandByDistance ==
  /\ PrimaryCommandByFiniteDistance
  /\ (cycles_started > 0 /\ distance.inf /\ ~interrupted /\ pc # "speed") =>
       (Len(issued) >= 1 /\ issued[1].by = "wander")

\* round(distance / ALERT_DISTANCE * BASE_SPEED) for a finite distance >= 0
RoundedScaledSpeed(d) == (2 * d.val * BASE_SPEED + ALERT_DISTANCE) \div (2 * ALERT_DISTANCE)
SpecifiedSpeed(d) ==
  IF RoundedScaledSpeed(d) > MIN_SPEED THEN RoundedScaledSpeed(d) ELSE MIN_SPEED

\* C7: the speed handed to the driver with the primary command is
\* max(min_speed, round(distance / alert_threshold * base_speed)).
C7_DriverGetsDecidedSpeed ==
  (pc \in AfterCommand /\ Len(issued) >= 1) =>
     (~distance.inf /\ issued[1].speed = SpecifiedSpeed(distance))

\* C8: the filtered distance is inf when the reading is absent or negative and
\* the reading itself otherwise (0 included); no logged distance is negative.
C8_FilterContract ==
  /\ distance = (IF raw.none \/ raw.val < 0 THEN Inf ELSE Finite(raw.val))
  /\ \A i \in 1..Len(data) : data[i][2].inf \/ data[i][2].val >= 0
\* a reading of 0 went into the log unchanged, a negative one became inf
C8_Witness ==
  /\ ~raw.none /\ raw.val < 0 /\ distance = Inf /\ pc = "speed"
  /\ Len(data) = 1 /\ data[1][2] = Finite(0)

\* C9: photo_history changes only by the append of the photo just captured,
\* after a scan that found no remembered photo similar to it; it holds at most
\* one entry per capture; it never shrinks.
C9_PlaceMemoryGrowsByNovelCaptures ==
  /\ [](Len(photo_history) <= captures)
  /\ [][photo_history' # photo_history =>
          /\ pc = "remember"
          /\ photo_history' = Append(photo_history, current_photo)
          /\ \A i \in 1..Len(photo_history) :
               CompareTable[current_photo, photo_history[i]] = "false"]_vars
  /\ [][Len(photo_history') >= Len(photo_history)]_vars
  /\ [][(pc = "orient" /\ \E i \in 1..Len(photo_history) :
             /\ CompareTable[current_photo, photo_history[i]] = "true"
             /\ \A j \in 1..(i - 1) : CompareTable[current_photo, photo_history[j]] = "false")
          => (pc' # "remember" /\ photo_history' = photo_history)]_vars
\* a photo similar to a remembered one was checked and not stored
C9_Witness ==
  /\ pc = "reset_timer" /\ recognized
  /\ photo_history = <<"roomA">> /\ current_photo = "roomAB" /\ captures = 2

\* C10: a visual check of the photo that the check before it stored as new
\* recognizes it: it does not go on to store the photo again.
C10_SecondCheckRecognizes ==
  (/\ pc \in {"remember", "corr_avoid"}
   /\ last_check.photo = current_photo
   /\ ~last_check.recognized)
  => pc = "corr_avoid"


\* C11: when the camera delivers no photo, no comparison is run and no
\* corrective command is issued (the statement goes straight to the timer
\* reset with the place memory and the commands untouched), the timer is then
\* reset and the cycle goes on to its record step; and through any run of
\* consecutive failed captures the place memory keeps the size it had at the
\* first of them.
C11_Step ==
  /\ (pc = "capture" /\ ~interrupted' /\ current_photo' = None)
       => /\ pc' = "reset_timer"
          /\ photo_history' = photo_history
          /\ issued' = issued
          /\ exc' = exc
  /\ (pc = "reset_timer" /\ ~interrupted')
       => /\ since_photo' = 0
          /\ pc' = "record"
          /\ photo_history' = photo_history
          /\ issued' = issued

C11_State ==
  /\ (\/ pc = "reset_timer" /\ current_photo = None
      \/ pc = "record" /\ since_photo = 0 /\ current_photo = None)
       => Len(issued) = 1
  /\ failed_streak.count > 0 => Len(photo_history) = failed_streak.memory

C11_FailedCaptureSkipsCheck == [][C11_Step]_vars /\ []C11_State

\* three scheduled checks in a row whose capture failed, each cycle completed
C11_Witness ==
  /\ failed_streak.count = 3
  /\ cycles_completed = 3
  /\ pc = "measure"
  /\ Len(photo_history) = failed_streak.memory


\* C12: below the alert distance the alert sound is attempted before the
\* evasive command is issued; whether it played or failed, the statement after
\* the sound is the evasive turn and no exception leaves the sound step; a
\* cycle whose sound failed still issues the evasive command, reaches its
\* record step with the loop Running, and appends its sample there.
C12_Step ==
  /\ (pc = "sound" /\ ~interrupted')
       => /\ alert' \in {"played", "failed"}
          /\ issued' = << >>
          /\ pc' = "avoid"
          /\ exc' = exc
  /\ (pc = "record" /\ alert = "failed" /\ ~interrupted')
       => /\ Len(data') = Len(data) + 1
          /\ data'[Len(data')][2] = distance
          /\ Running'

C12_State ==
  /\ pc = "avoid" => alert \in {"played", "failed"} /\ issued = << >>
  /\ (pc \in AfterCommand /\ alert # "none")
       => /\ Running
          /\ issued[1] = EvasiveTurn(speed)
  /\ (pc \in AfterCommand /\ issued[1].by = "avoid_obstacle") => alert # "none"

C12_AudioFailureSwallowed == [][C12_Step]_vars /\ []C12_State

\* the sound failed, the evasive turn was issued, the cycle is at its append
C12_Witness ==
  /\ pc = "record"
  /\ alert = "failed"
  /\ Len(issued) = 1
  /\ issued[1].by = "avoid_obstacle"
  /\ Len(data) = 1


\* a photo in which ORB finds no keypoint
NoDescriptors(photo) == Len(Descriptors(photo)) = 0

\* C13: a comparison in which either photo has no descriptors gives "not
\* similar" without raising, so a visual check whose current photo or one of
\* whose remembered photos is blank leaves the loop Running (or handling an
\* interrupt), never ended by an exception.
C13_BlankSnapshotNotSimilar ==
  [][(/\ pc = "orient"
      /\ \/ NoDescriptors(current_photo)
         \/ \E i \in 1..Len(photo_history) : NoDescriptors(photo_history[i]))
       => (Running' \/ interrupted')]_vars


\* C14: every heading angle in the trace log lies in [0, 360): for every sample
\* (a, d) of the log, 0 <= a and a < 360.
C14_AngleInHalfOpenRange ==
  \A i \in 1..Len(data) : 0 <= data[i][1] /\ data[i][1] < 360


\* C15: no step of the flush changes the in-memory log; a flush step that
\* fails to write its file (the CSV or the plot) ends main() with the OSError
\* raised, not dropped, and the log is what it was before the step.
C15_Step ==
  /\ ShuttingDown => data' = data
  /\ (pc = "save_csv" /\ csv_file' = << >>)
       => exc' = "OSError" /\ Terminated'
  /\ (pc = "save_plot" /\ ~png_file')
       => exc' = "OSError" /\ Terminated'

C15_State ==
  exc = "OSError" => Terminated /\ interrupted /\ Len(data) = cycles_completed

C15_FlushKeepsLog == [][C15_Step]_vars /\ []C15_State

\* the CSV write failed after two samples: the error left main(), the log is whole
C15_Witness ==
  /\ Terminated
  /\ exc = "OSError"
  /\ csv_file = << >>
  /\ flush_attempts = 1
  /\ Len(data) = 2
  /\ data[1] # data[2]


\* a reader of the artifact: int() and float() of the fields csv.reader returns
DigitValue(c) == CASE c = "0" -> 0 [] c = "1" -> 1 [] c = "2" -> 2 [] c = "3" -> 3 [] c = "4" -> 4
                   [] c = "5" -> 5 [] c = "6" -> 6 [] c = "7" -> 7 [] c = "8" -> 8 [] c = "9" -> 9
RECURSIVE ParseNat(_)
ParseNat(str) ==
  IF Len(str) = 1 THEN DigitValue(str[1])
  ELSE 10 * ParseNat(SubSeq(str, 1, Len(str) - 1)) + DigitValue(str[Len(str)])
ParseDistance(str) == IF str = <<"i", "n", "f">> THEN Inf ELSE Finite(ParseNat(str))
\* the rows after the header, parsed
ReadBack(rows) ==
  [i \in 1..(Len(rows) - 1) |-> <<ParseNat(rows[i + 1][1]), ParseDistance(rows[i + 1][2])>>]

\* C16: the file of a successful flush is the header row followed by one row
\* per sample of the log, in the order of the log: parsing the rows after the
\* header gives back the log's (angle, distance) pairs, for a log of any
\* length, the empty one included.
C16_CsvRoundTrip ==
  csv_file # << >>
    => /\ csv_file[1] = <<"Angle", "Distance">>
       /\ Len(csv_file) = Len(data) + 1
       /\ ReadBack(csv_file) = data

\* a written file of three samples, the first two different, one with a
\* three-digit angle
C16_Witness ==
  /\ csv_file # << >>
  /\ Len(csv_file) = 4
  /\ data[1] # data[2]
  /\ data[3][1] = 360
  /\ csv_file[4][1] = <<"3", "6", "0">>


\* C17: a visual check that recognizes the place has issued exactly one
\* command after the primary one, an evasive turn, however many remembered
\* photos are similar to the current one; a check without a match and a failed
\* capture have issued none. A cycle at its record step has issued the primary
\* command and at most one corrective command.
C17_OneCorrectiveTurn ==
  /\ pc = "reset_timer"
       => /\ Len(issued) = IF current_photo # None /\ recognized THEN 2 ELSE 1
          /\ Len(issued) = 2 => issued[2] = EvasiveTurn(speed)
  /\ pc = "remember" => Len(issued) = 1
  /\ pc = "record"
       => /\ Len(issued) \in {1, 2}
          /\ issued[1].by \in {"avoid_obstacle", "wander"}
          /\ Len(issued) = 2 => issued[2].by = "avoid_obstacle"

\* two remembered photos are both similar to the current one: one corrective turn
C17_Witness ==
  /\ pc = "reset_timer"
  /\ photo_history = <<"roomA", "roomB">>
  /\ current_photo = "roomAB"
  /\ CompareTable["roomAB", "roomA"] = "true"
  /\ CompareTable["roomAB", "roomB"] = "true"
  /\ recognized
  /\ Len(issued) = 2


\* the statements of the visual check, from the capture to the timer reset
Checking == {"capture", "orient", "corr_avoid", "corr_sleep", "remember", "reset_timer"}

\* C18 as stated: the cycle's sample is already in the log while the camera
\* capture and the comparison of that cycle take place, so the log then holds
\* one sample per started cycle.
C18_SampleBeforeCheck ==
  pc \in Checking => Len(data) = cycles_started

\* C18 amended: within a cycle the order is distance read, primary command,
\* the visual check if it is due, and last the append of the sample. Before
\* the command nothing is issued, the log holds the samples of the earlier
\* cycles only until the record step, a due check follows the primary command
\* directly, and the log changes at the record step alone, which ends the cycle.
C18_Step ==
  /\ data' # data => pc = "record" /\ pc' = "measure"
  /\ (pc = "sleep" /\ ~interrupted' /\ since_photo' > PHOTO_INTERVAL)
       => pc' = "capture"
  /\ (pc' = "capture" /\ pc # "capture") => pc = "sleep"

C18_State ==
  /\ pc \in {"speed", "sound", "avoid", "wander"}
       => issued = << >> /\ Len(data) = cycles_started - 1
  /\ pc \in AfterCommand
       => Len(issued) >= 1 /\ Len(data) = cycles_started - 1
  /\ pc = "measure" => Len(data) = cycles_started

C18_CheckBeforeSample == [][C18_Step]_vars /\ []C18_State

\* the second cycle is comparing its photo: its command is issued, its sample
\* is not in the log yet
C18_Witness ==
  /\ pc = "orient"
  /\ cycles_started = 2
  /\ Len(issued) = 1
  /\ Len(data) = 1


\* C19: the camera is read only when the time since the last visual check (or
\* since the start) is strictly greater than the photo interval; the capture
\* statement is entered from the sleep after the primary command and from
\* nowhere else, so at most once in a cycle; the check that follows ends by
\* setting the elapsed time to zero, whether or not a photo was delivered, so
\* the next capture again needs more than one interval.
C19_Step ==
  /\ (pc' = "capture" /\ pc # "capture")
       => pc = "sleep" /\ since_photo' > PHOTO_INTERVAL
  /\ (pc = "sleep" /\ ~interrupted' /\ since_photo' <= PHOTO_INTERVAL)
       => pc' = "record" /\ captures' = captures /\ failed_streak' = failed_streak
  /\ (captures' # captures \/ failed_streak' # failed_streak) => pc = "capture"
  /\ (pc = "capture" /\ ~interrupted') => pc' \in {"orient", "reset_timer"}
  /\ (pc \in Checking \cup {"record"}) => pc' # "capture"
  /\ (pc = "reset_timer" /\ ~interrupted') => since_photo' = 0 /\ pc' = "record"

C19_State ==
  /\ pc = "capture" => since_photo > PHOTO_INTERVAL
  /\ pc = "record" => since_photo <= PHOTO_INTERVAL

C19_CaptureOnlyAfterInterval == [][C19_Step]_vars /\ []C19_State

\* two cycles whose elapsed time reached the interval exactly took no photo;
\* the third, past the interval, is at its capture, the first of the run
C19_Witness ==
  /\ pc = "capture"
  /\ cycles_started = 3
  /\ captures = 0
  /\ failed_streak.count = 0
  /\ since_photo > PHOTO_INTERVAL


\* C20: once the interrupt is taken the run is in the handler or ended, and no
\* later step issues a locomotion command, attempts the alert sound, reads the
\* camera or the distance sensor, or changes the log or the place memory; the
\* rows of the written file, parsed, are the log, which is the log the
\* interrupt found.
C20_Step ==
  /\ interrupted
       => /\ issued' = issued
          /\ alert' = alert
          /\ captures' = captures
          /\ failed_streak' = failed_streak
          /\ current_photo' = current_photo
          /\ cycles_started' = cycles_started
          /\ data' = data
          /\ photo_history' = photo_history
  /\ (~interrupted /\ interrupted') => data' = data /\ photo_history' = photo_history

C20_State ==
  /\ interrupted => (ShuttingDown \/ Terminated)
  /\ (interrupted /\ csv_file # << >>)
       => Len(csv_file) = Len(data) + 1 /\ ReadBack(csv_file) = data

C20_NothingAfterInterrupt == [][C20_Step]_vars /\ []C20_State

\* interrupted inside the third cycle, after its command: both files written,
\* two rows flushed
C20_Witness ==
  /\ Terminated
  /\ interrupted
  /\ exc = "none"
  /\ png_file
  /\ cycles_started = 3
  /\ Len(issued) = 1
  /\ Len(data) = 2
  /\ Len(csv_file) = 3

=============================================================================
